---- MODULE Spec2Model ----
(***************************************************************************)
(* Verification model of the task-routing core of the multi-agent          *)
(* assistant: the circuit breaker and with_retry (wiki/Troubleshooting.md),*)
(* the workflow engine's route_task and the coordinator's delegation       *)
(* (wiki-deploy/Agent-Framework.md) and the processTask contract around    *)
(* them.                                                                   *)
(*                                                                         *)
(* The breaker is an asyncio coroutine: the code between two awaits runs   *)
(* atomically on the event loop, so CircuitBreaker.call is three steps:    *)
(* the entry check up to `await operation(...)`, and the continuation      *)
(* after the await, which is either the success path or the except path.   *)
(***************************************************************************)
EXTENDS Integers, Sequences, FiniteSets

VARIABLES
    state,              \* CircuitBreaker.state
    failure_count,      \* CircuitBreaker.failure_count
    last_failure_time,  \* CircuitBreaker.last_failure_time (NoTime = None)
    now,                \* time.time(), whole seconds
    callPc,             \* per caller: "idle" or "awaiting" the operation
    outcome,            \* per caller: how its last call through the breaker ended
    entered,            \* per awaiting caller: breaker state it saw at entry
    entryCount,         \* per awaiting caller: failure_count at entry
    failTimes,          \* times of the failures recorded since the last reset
    session_states,     \* WorkflowEngine.session_states: ids of existing sessions
    iterationCount,     \* per session: WorkflowState.iterationCount
    message_history,    \* per session: WorkflowState.message_history
    last_activity,      \* per session: WorkflowState.last_activity
    writers,            \* per session: for each history entry, the call that wrote it
    taskPc,             \* per call: "idle", "analysing" (awaiting the delegation
                        \*   analysis) or "processing" (awaiting the worker)
    taskSession,        \* per call in progress: its session id
    taskResult,         \* per call: what the call gave its caller
    taskWorker,         \* per call: the agent whose process_task does the work
    decision,           \* per call: the delegation decision it acts on
    analyses,           \* per call in progress: number of delegation analyses
                        \*   started for it
    succeeded,          \* per session: number of calls that returned success
    unsuccessful,       \* per session: number of counted calls that did not
    agent_states,       \* the agent_states table: its rows
    last_saved,         \* per session and agent: the state_data that the most
                        \*   recent save_agent_state call was given
    max_retries,        \* ErrorRecoveryManager.max_retries
    retryPc,            \* with_retry: "idle", "awaiting" the operation, "sleeping",
                        \*   "returned" or "raised"
    attempt,            \* with_retry: the loop variable `attempt`
    invocations,        \* with_retry: number of times the operation was invoked
    errors,             \* with_retry: the errors of the failed attempts, in order
    surfaced,           \* with_retry: the error raised to the caller ("none": none)
    waits,              \* with_retry: the backoff waits slept so far, in order
    effects,            \* number of times the operation applied its side effects
    calendar_events,    \* the calendar_events table: its rows, in insertion order
    reqPc,              \* per server process: "idle", or "creating" an event
                        \*   after the conflict check found nothing
    request,            \* per server process: the time range of its last request
    found,              \* per server process: the rows its conflict check returned
    reply,              \* per server process: how its last request ended
    isProcessing,       \* ChatInterface.isProcessing
    submitted,          \* how the last sendMessage ended: "none", "ignored"
                        \*   or "sent"
    sent,               \* number of POST /api/chat requests sent
    posted,             \* the `message` of the last request sent
    messageInput,       \* ChatInterface.messageInput.value
    messageHistory,     \* ChatInterface.messageHistory
    sessionId,          \* ChatInterface.sessionId
    pending,            \* the requests sent and not yet settled, by number
    outcomes,           \* per request sent: "pending", the outcome shown for
                        \*   it ("assistant" or "error"), "many" if several
    chat_sessions,      \* the chat_sessions table: its rows, in insertion order
    chat_messages,      \* the chat_messages table: number of rows per session_id
    sessPc,             \* per server process: "idle", or "creating" a session
                        \*   after the query found none
    sessKey,            \* per server process: the session_id of its last request
    sessReply,          \* per server process: how its last request ended
    request_counts,     \* RateLimiter.request_counts: session_id -> times
    admitted,           \* per session: the times of all requests admitted
    allowed,            \* per session: what check_rate_limit returned last
                        \*   ("none": not called yet)
    session,            \* the Flask session of one browser
    utcnow,             \* datetime.utcnow(), in seconds
    jumps,              \* number of times the clock was advanced
    validated           \* the last validate_session call: what it saw, what
                        \*   it returned and what it left

cbVars == <<state, failure_count, last_failure_time, now, callPc, outcome,
            entered, entryCount, failTimes>>
engVars == <<session_states, iterationCount, message_history, last_activity,
             writers, taskPc, taskSession, taskResult, taskWorker, decision,
             analyses, succeeded, unsuccessful, agent_states,
             last_saved>>
retryVars == <<max_retries, retryPc, attempt, invocations, errors, surfaced,
               waits, effects>>
calVars == <<calendar_events, reqPc, request, found, reply>>
clientVars == <<isProcessing, submitted, sent, posted, messageInput,
               messageHistory, sessionId, pending, outcomes>>
\* what the engine, its breaker and its retries never touch
sessVars == <<chat_sessions, chat_messages, sessPc, sessKey, sessReply>>
limVars == <<request_counts, admitted, allowed>>
cookieVars == <<session, utcnow, jumps, validated>>
sideVars == <<calVars, clientVars, sessVars, limVars, cookieVars>>
vars == <<cbVars, engVars, retryVars, sideVars>>
notBreaker == <<engVars, retryVars, sideVars>>
notEngine == <<cbVars, retryVars, sideVars>>
notRetry == <<cbVars, engVars, sideVars>>
notCalendar == <<cbVars, engVars, retryVars, clientVars, sessVars, limVars,
                 cookieVars>>
notClient == <<cbVars, engVars, retryVars, calVars, sessVars, limVars,
               cookieVars>>
notSessions == <<cbVars, engVars, retryVars, calVars, clientVars, limVars,
                 cookieVars>>
notCookie == <<cbVars, engVars, retryVars, calVars, clientVars, sessVars,
               limVars>>
\* the clock apart, what the rate limiter never touches
notLimiter == <<state, failure_count, last_failure_time, callPc, outcome,
                entered, entryCount, failTimes, engVars, retryVars, calVars,
                clientVars, sessVars, cookieVars>>

----------------------------------------------------------------------------
(* Bounds and parameters *)

\* CircuitBreaker(failure_threshold=5, timeout=60): constructor arguments,
\* instantiated small so that the breaker opens and resets within MaxTime.
failure_threshold == 2
timeout == 2
\* the clock stops at MaxTime; at most MaxFailures failures are recorded
MaxTime == 6
MaxFailures == 4

Callers == {"c1", "c2", "c3"}
NoTime == 0 - 1

----------------------------------------------------------------------------
(* CircuitBreaker *)

\* `time.time() - self.last_failure_time > self.timeout`
ResetElapsedInclusive(t, lft) == t - lft >= timeout
ResetElapsed(t, lft) == t - lft > timeout

\* `if self.state == 'HALF_OPEN':` on the success path
NotClosed(st) == st # "CLOSED"
ProbeSucceeded(st) == st = "HALF_OPEN"

\* `self.failure_count += 1`
CountFromEntry(c) == entryCount[c] + 1
CountWindowed(c) ==
    IF last_failure_time # NoTime /\ now - last_failure_time > timeout
    THEN 1 ELSE failure_count + 1
CountAfterFailure(c) == failure_count + 1

\* `if self.failure_count >= self.failure_threshold:`
ThresholdExceeded(fc) == fc > failure_threshold
ThresholdEqual(fc) == fc = failure_threshold
ThresholdReached(fc) == fc >= failure_threshold

\* call(), from entry to `await operation(...)` or to the raise
CallStep(c) ==
    /\ callPc[c] = "idle"
    /\ IF state = "OPEN"
       THEN IF ResetElapsed(now, last_failure_time)
            THEN /\ state' = "HALF_OPEN"
                 /\ callPc' = [callPc EXCEPT ![c] = "awaiting"]
                 /\ entered' = [entered EXCEPT ![c] = "OPEN"]
                 /\ entryCount' = [entryCount EXCEPT ![c] = failure_count]
                 /\ outcome' = [outcome EXCEPT ![c] = "pending"]
            ELSE /\ outcome' = [outcome EXCEPT ![c] = "CircuitOpen"]
                 /\ UNCHANGED <<state, callPc, entered, entryCount>>
       ELSE /\ callPc' = [callPc EXCEPT ![c] = "awaiting"]
            /\ entered' = [entered EXCEPT ![c] = state]
            /\ entryCount' = [entryCount EXCEPT ![c] = failure_count]
            /\ outcome' = [outcome EXCEPT ![c] = "pending"]
            /\ UNCHANGED state
    /\ UNCHANGED <<failure_count, last_failure_time, now, failTimes>>

Call(c) == CallStep(c) /\ UNCHANGED notBreaker

\* call(), after the await: the operation returned
OperationReturnsStep(c) ==
    /\ callPc[c] = "awaiting"
    /\ IF ProbeSucceeded(state)
       THEN /\ state' = "CLOSED"
            /\ failure_count' = 0
            /\ failTimes' = <<>>
       ELSE UNCHANGED <<state, failure_count, failTimes>>
    /\ callPc' = [callPc EXCEPT ![c] = "idle"]
    /\ outcome' = [outcome EXCEPT ![c] = "returned"]
    /\ entered' = [entered EXCEPT ![c] = "none"]
    /\ entryCount' = [entryCount EXCEPT ![c] = 0]
    /\ UNCHANGED <<last_failure_time, now>>

OperationReturns(c) == OperationReturnsStep(c) /\ UNCHANGED notBreaker

\* call(), after the await: the operation raised
OperationRaisesStep(c) ==
    /\ callPc[c] = "awaiting"
    /\ Len(failTimes) < MaxFailures
    /\ failure_count' = CountAfterFailure(c)
    /\ last_failure_time' = now
    /\ failTimes' = Append(failTimes, now)
    /\ IF ThresholdReached(failure_count')
       THEN state' = "OPEN"
       ELSE UNCHANGED state
    /\ callPc' = [callPc EXCEPT ![c] = "idle"]
    /\ outcome' = [outcome EXCEPT ![c] = "raised"]
    /\ entered' = [entered EXCEPT ![c] = "none"]
    /\ entryCount' = [entryCount EXCEPT ![c] = 0]
    /\ UNCHANGED now

OperationRaises(c) == OperationRaisesStep(c) /\ UNCHANGED notBreaker

\* the wall clock advances
Tick ==
    /\ now < MaxTime
    /\ now' = now + 1
    /\ UNCHANGED <<state, failure_count, last_failure_time, callPc, outcome,
                   entered, entryCount, failTimes>>
    /\ UNCHANGED notBreaker

----------------------------------------------------------------------------
(* Workflow engine *)

\* Config.MAX_AGENT_ITERATIONS = int(os.environ.get(..., '10')): read from
\* the environment, set small here so that the limit is reached.
MAX_AGENT_ITERATIONS == 2
\* at most MaxTasks tasks with a non-empty input are submitted in all
MaxTasks == 4
\* a task goes through at most MaxAnalyses delegation analyses
MaxAnalyses == 2

\* PERSONAL_ASSISTANT_CONFIG['delegation_threshold'] = 0.7; confidences are
\* counted in tenths
delegation_threshold == 7

Sessions == {"s1", "s2"}
\* the processTask calls that can be in progress together
Tasks == {"t1", "t2"}
Inputs == {"", "task"}
Coordinator == "personal_assistant"
\* WorkflowEngine.agents after the register_agent calls of the start-up
Agents == {Coordinator, "calendar"}

RECURSIVE SumOver(_, _)
SumOver(f, S) ==
    IF S = {} THEN 0
    ELSE LET x == CHOOSE y \in S : TRUE IN f[x] + SumOver(f, S \ {x})

\* WorkflowState.add_message: append one entry at the end of the history
\* (the entry's own timestamp is not kept; last_activity, which add_message
\* sets to the same instant, is set by the action that calls it)
add_message(history, role, content, agent_type) ==
    Append(history, [role |-> role, content |-> content, agent_type |-> agent_type])

\* step 3 of processTask: the task is refused when the incremented count
\* exceeds the maximum
LimitOffByOne(n) == n > MAX_AGENT_ITERATIONS + 1
IterationLimitExceeded(n) == n > MAX_AGENT_ITERATIONS

\* what the inference backend can answer to the delegation prompt: the three
\* fields of the JSON it is asked for (complete: none of them is missing)
Responses ==
    [complete : BOOLEAN,
     needs_delegation : BOOLEAN,
     recommended_agent : Agents \cup {"unknown_agent"},
     confidence : {3, 7, 12}]

NoDecision ==
    [needs_delegation |-> FALSE, recommended_agent |-> "none", confidence |-> 0,
     malformed |-> FALSE, target_state |-> "none"]

WellFormed(r) ==
    /\ r.complete
    /\ r.confidence \in 0..10
    /\ r.recommended_agent \in Agents

\* _analyze_delegation_need: the decision made of the backend's response; a
\* response that is not well-formed counts as needs_delegation = false
ClassifyUnchecked(r) ==
    [needs_delegation |-> r.needs_delegation,
     recommended_agent |-> r.recommended_agent,
     confidence |-> r.confidence,
     malformed |-> ~WellFormed(r),
     target_state |-> "none"]
Classify(r) ==
    IF WellFormed(r)
    THEN [needs_delegation |-> r.needs_delegation,
          recommended_agent |-> r.recommended_agent,
          confidence |-> r.confidence,
          malformed |-> FALSE,
          target_state |-> "none"]
    ELSE [needs_delegation |-> FALSE,
          recommended_agent |-> "none",
          confidence |-> 0,
          malformed |-> TRUE,
          target_state |-> "none"]

\* the answer to a scheduling request: delegate to the calendar agent
CalendarResponses ==
    {r \in Responses :
        /\ r.complete
        /\ r.needs_delegation
        /\ r.recommended_agent = "calendar"
        /\ r.confidence = 7}

\* A key of a dict is a str or an int; `text` is how it is written
StrKey(text) == [kind |-> "str", text |-> text]
IntKey(text) == [kind |-> "int", text |-> text]
Keys == {StrKey("a"), IntKey("1")}

\* the dicts over Keys: state_data as the agents hand it over
Dicts == UNION {[ks -> {"x"}] : ks \in SUBSET Keys}
EmptyDict == [k \in {} |-> "x"]

\* json.dumps(state_data): a JSON object, its members named by the text of
\* the keys (an int key is written as a string)
json_dumps(d) ==
    [text \in {k.text : k \in DOMAIN d} |->
        d[CHOOSE k \in DOMAIN d : k.text = text]]

\* json.loads(text): the dict of the JSON object, all keys str
json_loads(j) ==
    [k \in {StrKey(text) : text \in DOMAIN j} |-> j[k.text]]

\* nothing saved yet, and the record of a save
NothingSaved == [saved |-> FALSE, state_data |-> EmptyDict]
Saved(d) == [saved |-> TRUE, state_data |-> d]

\* A save that looks the row up by agent_type alone (used to test C28).
save_by_agent_type(rows, session_id, agent_type, state_data) ==
    LET hits == {r \in rows : r.agent_type = agent_type}
    IN  IF hits # {}
        THEN LET first == CHOOSE r \in hits : TRUE
             IN  (rows \ {first})
                    \cup {[first EXCEPT !.state_data = json_dumps(state_data)]}
        ELSE rows \cup {[session_id |-> session_id, agent_type |-> agent_type,
                         state_data |-> json_dumps(state_data)]}

\* AgentStateManager.save_agent_state(session_id, agent_type, state_data):
\* the row with this session_id and agent_type is updated, or created when
\* the query finds none
save_agent_state(rows, session_id, agent_type, state_data) ==
    LET hits == {r \in rows : r.session_id = session_id
                               /\ r.agent_type = agent_type}
    IN  IF hits # {}
        THEN LET first == CHOOSE r \in hits : TRUE
             IN  (rows \ {first})
                    \cup {[first EXCEPT !.state_data = json_dumps(state_data)]}
        ELSE rows \cup {[session_id |-> session_id, agent_type |-> agent_type,
                         state_data |-> json_dumps(state_data)]}

\* load_agent_state(session_id, agent_type): the state_data of the row,
\* parsed; the empty dict when there is no row
load_agent_state(rows, session_id, agent_type) ==
    LET hits == {r \in rows : r.session_id = session_id
                               /\ r.agent_type = agent_type}
    IN  IF hits # {}
        THEN json_loads((CHOOSE r \in hits : TRUE).state_data)
        ELSE EmptyDict

\* a call save_agent_state(session_id, agent_type, state_data)
SaveAgentStateStep(session_id, agent_type, state_data) ==
    /\ agent_states' =
          save_agent_state(agent_states, session_id, agent_type, state_data)
    /\ last_saved' =
          [last_saved EXCEPT ![session_id][agent_type] = Saved(state_data)]

SaveAgentState(session_id, agent_type, state_data) ==
    /\ SaveAgentStateStep(session_id, agent_type, state_data)
    /\ UNCHANGED <<session_states, iterationCount, message_history,
                   last_activity, writers, taskPc, taskSession, taskResult,
                   taskWorker, decision, analyses, succeeded, unsuccessful>>
    /\ UNCHANGED notEngine

\* the scratch state the engine saves for a worker: the number of messages
\* the worker has seen
MessagesSeen(n) == [k \in {StrKey("messages")} |-> n]

\* _update_session_state(session_id, result): a successful result is
\* recorded as an assistant message tagged with the worker that produced it,
\* and the worker's AgentState for this session is persisted
UpdateSessionState(s, t, ok) ==
    IF ok
    THEN /\ message_history' =
                [message_history EXCEPT
                    ![s] = add_message(@, "assistant", "response", taskWorker[t])]
         /\ writers' = [writers EXCEPT ![s] = Append(@, t)]
         /\ last_activity' = [last_activity EXCEPT ![s] = now]
         /\ SaveAgentStateStep(s, taskWorker[t],
                               MessagesSeen(Len(message_history[s]) + 1))
    ELSE UNCHANGED <<message_history, writers, last_activity, agent_states,
                     last_saved>>

\* processTask(sessionId, rawInput) up to the dispatch: input validation,
\* create-on-miss, the user message, the iteration count and its limit; a
\* task that passes enters route_task, which calls
\* coordinator.process_task, which awaits _analyze_delegation_need.
ProcessTask(t, s, rawInput) ==
    /\ taskPc[t] = "idle"
    /\ IF rawInput = ""
       THEN /\ taskResult' = [taskResult EXCEPT ![t] = "InvalidInputError"]
            /\ UNCHANGED <<session_states, iterationCount, message_history,
                           writers, last_activity, taskPc, taskSession,
                           analyses, succeeded, unsuccessful, agent_states,
                           last_saved>>
       ELSE /\ SumOver(iterationCount, Sessions) < MaxTasks
            /\ session_states' = session_states \cup {s}
            /\ message_history' =
                   [message_history EXCEPT
                       ![s] = add_message(@, "user", rawInput, "none")]
            /\ writers' = [writers EXCEPT ![s] = Append(@, t)]
            /\ last_activity' = [last_activity EXCEPT ![s] = now]
            /\ iterationCount' = [iterationCount EXCEPT ![s] = @ + 1]
            /\ UNCHANGED <<agent_states, last_saved>>
            /\ IF IterationLimitExceeded(iterationCount'[s])
               THEN /\ taskResult' =
                          [taskResult EXCEPT ![t] = "IterationLimitExceeded"]
                    /\ unsuccessful' = [unsuccessful EXCEPT ![s] = @ + 1]
                    /\ UNCHANGED <<taskPc, taskSession, analyses, succeeded>>
               ELSE /\ taskPc' = [taskPc EXCEPT ![t] = "analysing"]
                    /\ taskSession' = [taskSession EXCEPT ![t] = s]
                    /\ taskResult' = [taskResult EXCEPT ![t] = "pending"]
                    /\ analyses' = [analyses EXCEPT ![t] = 1]
                    /\ UNCHANGED <<succeeded, unsuccessful>>
    /\ UNCHANGED <<taskWorker, decision>>
    /\ UNCHANGED notEngine

\* PersonalAssistantAgent.process_task after `await
\* self._analyze_delegation_need(task, context)`: the backend answered r
\* and the breaker of the recommended agent is in state bs.
\* needs_delegation alone decides between _delegate_task and
\* _handle_directly. delegate_task looks the target up in the registry (a
\* KeyError when it is not there) and awaits its process_task: for a
\* specialized agent that is the work itself; for the coordinator it is the
\* delegation analysis once more.
AnalysisReturns(t, r, bs) ==
    /\ taskPc[t] = "analysing"
    /\ LET d == Classify(r) IN
       IF d.needs_delegation
       THEN IF d.recommended_agent \notin Agents
               THEN /\ decision' = [decision EXCEPT ![t] = d]
                    /\ taskResult' = [taskResult EXCEPT ![t] = "raised"]
                    /\ unsuccessful' =
                          [unsuccessful EXCEPT ![taskSession[t]] = @ + 1]
                    /\ taskPc' = [taskPc EXCEPT ![t] = "idle"]
                    /\ taskSession' = [taskSession EXCEPT ![t] = "none"]
                    /\ analyses' = [analyses EXCEPT ![t] = 0]
                    /\ UNCHANGED taskWorker
               ELSE IF d.recommended_agent = Coordinator
               THEN /\ analyses[t] < MaxAnalyses
                    /\ decision' =
                          [decision EXCEPT ![t] = [d EXCEPT !.target_state = bs]]
                    /\ analyses' = [analyses EXCEPT ![t] = @ + 1]
                    /\ UNCHANGED <<taskPc, taskSession, taskWorker, taskResult,
                                   unsuccessful>>
               ELSE /\ taskPc' = [taskPc EXCEPT ![t] = "processing"]
                    /\ decision' =
                          [decision EXCEPT ![t] = [d EXCEPT !.target_state = bs]]
                    /\ taskWorker' = [taskWorker EXCEPT ![t] = d.recommended_agent]
                    /\ UNCHANGED <<taskSession, analyses, taskResult,
                                   unsuccessful>>
       ELSE /\ decision' = [decision EXCEPT ![t] = d]
            /\ taskPc' = [taskPc EXCEPT ![t] = "processing"]
            /\ taskWorker' = [taskWorker EXCEPT ![t] = Coordinator]
            /\ UNCHANGED <<taskSession, analyses, taskResult, unsuccessful>>
    /\ UNCHANGED <<session_states, iterationCount, message_history, writers,
                   last_activity, succeeded, agent_states, last_saved>>
    /\ UNCHANGED notEngine

\* route_task: `await coordinator.process_task(task, context)` returned a
\* result (ok: a success result; otherwise an error result); the session
\* state is updated and the result is returned.
RouteTaskReturnsStep(t, ok) ==
    /\ taskPc[t] = "processing"
    /\ UpdateSessionState(taskSession[t], t, ok)
    /\ taskResult' = [taskResult EXCEPT ![t] = IF ok THEN "success" ELSE "failure"]
    /\ succeeded' = [succeeded EXCEPT ![taskSession[t]] = IF ok THEN @ + 1 ELSE @]
    /\ unsuccessful' =
          [unsuccessful EXCEPT ![taskSession[t]] = IF ok THEN @ ELSE @ + 1]
    /\ taskPc' = [taskPc EXCEPT ![t] = "idle"]
    /\ decision' = [decision EXCEPT ![t] = NoDecision]
    /\ taskWorker' = [taskWorker EXCEPT ![t] = "none"]
    /\ analyses' = [analyses EXCEPT ![t] = 0]
    /\ taskSession' = [taskSession EXCEPT ![t] = "none"]
    /\ UNCHANGED <<session_states, iterationCount>>

RouteTaskReturns(t, ok) == RouteTaskReturnsStep(t, ok) /\ UNCHANGED notEngine

\* route_task: `await coordinator.process_task(task, context)` raised, in
\* the analysis or in the work; route_task has no try/except, so the
\* exception leaves it and _update_session_state is not reached.
RouteTaskRaisesStep(t) ==
    /\ taskPc[t] \in {"analysing", "processing"}
    /\ taskResult' = [taskResult EXCEPT ![t] = "raised"]
    /\ unsuccessful' = [unsuccessful EXCEPT ![taskSession[t]] = @ + 1]
    /\ taskPc' = [taskPc EXCEPT ![t] = "idle"]
    /\ decision' = [decision EXCEPT ![t] = NoDecision]
    /\ taskWorker' = [taskWorker EXCEPT ![t] = "none"]
    /\ analyses' = [analyses EXCEPT ![t] = 0]
    /\ taskSession' = [taskSession EXCEPT ![t] = "none"]
    /\ UNCHANGED <<session_states, iterationCount, message_history, writers,
                   last_activity, succeeded, agent_states, last_saved>>

RouteTaskRaises(t) == RouteTaskRaisesStep(t) /\ UNCHANGED notEngine

----------------------------------------------------------------------------
(* ErrorRecoveryManager.with_retry *)

\* ErrorRecoveryManager(max_retries=3): instances are built with 0..MaxRetries
MaxRetries == 4
Errors == {"BackendTimeout", "BackendUnavailable"}

RECURSIVE Pow2(_)
Pow2(n) == IF n = 0 THEN 1 ELSE 2 * Pow2(n - 1)

\* `if attempt == self.max_retries - 1:`
OneAttemptMore(a) == a = max_retries
LastAttempt(a) == a = max_retries - 1

\* the bare `raise` in the except block re-raises the exception in hand
FirstError(errs) == errs[1]
RaisedError(errs) == errs[Len(errs)]

\* `wait_time = 2 ** attempt`
LinearBackoff(a) == a + 1
wait_time(a) == Pow2(a)

\* `return await operation(...)`: the operation is awaited, so it has run
\* to its end, side effects included, when with_retry returns
NotAwaited(n) == n
Applied(n) == n + 1

\* with_retry is called: `for attempt in range(self.max_retries)` either
\* ends at once (the function returns None) or enters the first attempt
WithRetryStep ==
    /\ retryPc = "idle"
    /\ attempt' = 0
    /\ IF max_retries = 0
       THEN /\ retryPc' = "returned"
            /\ UNCHANGED invocations
       ELSE /\ retryPc' = "awaiting"
            /\ invocations' = invocations + 1
    /\ UNCHANGED <<max_retries, errors, surfaced, waits, effects>>

WithRetry == WithRetryStep /\ UNCHANGED notRetry

\* `return await operation(*args, **kwargs)`: the operation returned
AttemptReturnsStep ==
    /\ retryPc = "awaiting"
    /\ retryPc' = "returned"
    /\ effects' = Applied(effects)
    /\ UNCHANGED <<max_retries, attempt, invocations, errors, surfaced, waits>>

AttemptReturns == AttemptReturnsStep /\ UNCHANGED notRetry

\* the operation raised e, having applied its side effects or not before
\* it failed; the except block re-raises on the last attempt and otherwise
\* starts the backoff sleep
AttemptRaisesStep(e, applied) ==
    /\ retryPc = "awaiting"
    /\ errors' = Append(errors, e)
    /\ effects' = IF applied THEN effects + 1 ELSE effects
    /\ IF LastAttempt(attempt)
       THEN /\ retryPc' = "raised"
            /\ surfaced' = RaisedError(errors')
            /\ UNCHANGED waits
       ELSE /\ retryPc' = "sleeping"
            /\ waits' = Append(waits, wait_time(attempt))
            /\ UNCHANGED surfaced
    /\ UNCHANGED <<max_retries, attempt, invocations>>

AttemptRaises(e, applied) == AttemptRaisesStep(e, applied) /\ UNCHANGED notRetry

\* `await asyncio.sleep(wait_time)` is over: the loop goes to the next attempt
SleepDoneStep ==
    /\ retryPc = "sleeping"
    /\ attempt' = attempt + 1
    /\ retryPc' = "awaiting"
    /\ invocations' = invocations + 1
    /\ UNCHANGED <<max_retries, errors, surfaced, waits, effects>>

SleepDone == SleepDoneStep /\ UNCHANGED notRetry

----------------------------------------------------------------------------
(* Calendar: conflict detection and event creation *)

\* times are whole slots 0..MaxSlot; a time range has start_time <= end_time
MaxSlot == 3
\* the table holds at most MaxEvents rows
MaxEvents == 2

\* the server processes (`gunicorn --workers 4`) that share the database
Processes == {"p1", "p2"}

Ranges ==
    {r \in [start_time : 0..MaxSlot, end_time : 0..MaxSlot] :
        r.start_time <= r.end_time}
NoRange == [start_time |-> 0, end_time |-> 0]
\* the time ranges of meetings: two slots long
Meetings == {r \in Ranges : r.end_time - r.start_time = 2}

\* the tables of at most MaxEvents rows, whatever their time ranges
RECURSIVE TablesOf(_)
TablesOf(n) ==
    IF n = 0 THEN {<<>>}
    ELSE LET shorter == TablesOf(n - 1) IN
         shorter \cup {Append(t, r) : t \in {u \in shorter : Len(u) = n - 1},
                                      r \in Ranges}

\* CalendarManager.find_conflicts / CalendarAgent._check_conflicts:
\* filter(CalendarEvent.start_time < end_time,
\*        CalendarEvent.end_time > start_time).all()
find_conflicts_closed(events, start_time, end_time) ==
    SelectSeq(events,
              LAMBDA e : e.start_time <= end_time /\ e.end_time >= start_time)
find_conflicts(events, start_time, end_time) ==
    SelectSeq(events,
              LAMBDA e : e.start_time < end_time /\ e.end_time > start_time)

\* CalendarEvent.conflicts_with:
\* not (self.end_time <= start_time or self.start_time >= end_time)
conflicts_with_closed(self, start_time, end_time) ==
    ~(self.end_time < start_time \/ self.start_time > end_time)
conflicts_with(self, start_time, end_time) ==
    ~(self.end_time <= start_time \/ self.start_time >= end_time)

\* _create_event up to the decision: the time range r is parsed and the
\* conflict query is run; with conflicts the request ends in the conflict
\* resolution, without it goes on to create the event
CheckConflicts(p, r) ==
    /\ reqPc[p] = "idle"
    /\ request' = [request EXCEPT ![p] = r]
    /\ found' = [found EXCEPT
                    ![p] = find_conflicts(calendar_events, r.start_time, r.end_time)]
    /\ IF found'[p] # <<>>
       THEN /\ reply' = [reply EXCEPT ![p] = "conflict"]
            /\ UNCHANGED reqPc
       ELSE /\ reply' = [reply EXCEPT ![p] = "pending"]
            /\ reqPc' = [reqPc EXCEPT ![p] = "creating"]
    /\ UNCHANGED calendar_events
    /\ UNCHANGED notCalendar

\* _create_event, the rest: the event is added to the table and committed
CreateEvent(p) ==
    /\ reqPc[p] = "creating"
    /\ Len(calendar_events) < MaxEvents
    /\ calendar_events' = Append(calendar_events, request[p])
    /\ reply' = [reply EXCEPT ![p] = "created"]
    /\ reqPc' = [reqPc EXCEPT ![p] = "idle"]
    /\ UNCHANGED <<request, found>>
    /\ UNCHANGED notCalendar

----------------------------------------------------------------------------
(* RateLimiter *)

\* self.max_requests_per_minute = 60 and self.max_requests_per_hour = 1000,
\* and the windows of 60 and 3600 seconds, instantiated small so that both
\* limits are reached within MaxTime
max_requests_per_minute == 1
max_requests_per_hour == 2
Minute == 1
Hour == 3
\* a session is followed until MaxAdmitted of its requests were admitted
MaxAdmitted == 3

\* `len(...) > max`: the limit counts as reached one request late (used to
\* test C31).
LimitPassed(n, max) == n > max

\* `if len(...) >= self.max_requests_per_...: return False`
LimitReached(n, max) == n >= max

\* [req_time for req_time in ... if current_time - req_time < 3600]
recent_requests(times, current_time) ==
    SelectSeq(times, LAMBDA req_time : current_time - req_time < Hour)

\* [req_time for req_time in recent_requests if current_time - req_time < 60]
minute_requests(recent, current_time) ==
    SelectSeq(recent, LAMBDA req_time : current_time - req_time < Minute)

\* _cleanup_old_entries(current_time): the entries of the last hour stay
cleanup_old_entries(counts, current_time) ==
    [s \in DOMAIN counts |-> recent_requests(counts[s], current_time)]

\* request_counts with an empty list for a session_id that is not in it
WithSession(counts, session_id) ==
    [s \in DOMAIN counts \cup {session_id} |->
        IF s \in DOMAIN counts THEN counts[s] ELSE <<>>]

\* check_rate_limit(session_id): synchronous, one step
CheckRateLimit(session_id) ==
    /\ LET current_time == now
           counts == WithSession(
                        cleanup_old_entries(request_counts, current_time),
                        session_id)
           recent == recent_requests(counts[session_id], current_time)
       IN  IF \/ LimitReached(Len(recent), max_requests_per_hour)
              \/ LimitReached(Len(minute_requests(recent, current_time)),
                              max_requests_per_minute)
           THEN /\ request_counts' = counts
                /\ allowed' = [allowed EXCEPT ![session_id] = "False"]
                /\ UNCHANGED admitted
           ELSE /\ request_counts' =
                      [counts EXCEPT ![session_id] = Append(@, current_time)]
                /\ allowed' = [allowed EXCEPT ![session_id] = "True"]
                /\ admitted' =
                      [admitted EXCEPT ![session_id] = Append(@, current_time)]
    /\ UNCHANGED now
    /\ UNCHANGED notLimiter

----------------------------------------------------------------------------
(* SecureSessionManager *)

\* SESSION_CONFIG['session_timeout']
session_timeout == 3600
\* timedelta.seconds lies in 0..86399: the days are kept apart
SecondsPerDay == 86400

\* the clock is advanced at most MaxJumps times, each time by up to
\* MaxDays days and some seconds
MaxJumps == 2
MaxDays == 1
Offsets == {0, 1, session_timeout, session_timeout + 1, SecondsPerDay - 1}
Elapsed == {d * SecondsPerDay + o : d \in 0..MaxDays, o \in Offsets}

\* the session without any key, and with the keys create_session sets
NoSession == [session_id |-> "none", last_activity |-> NoTime]

\* timedelta.seconds of a duration that is not negative
seconds(delta) == delta % SecondsPerDay

\* create_session(session_id)
CreateSecureSession(session_id) ==
    /\ session' = [session_id |-> session_id, last_activity |-> utcnow]
    /\ UNCHANGED <<utcnow, jumps, validated>>
    /\ UNCHANGED notCookie

\* validate_session(): False without a session_id; False, and the session
\* destroyed, when the seconds since last_activity exceed session_timeout;
\* otherwise last_activity is set and True is returned
ValidateSession ==
    /\ IF session.session_id = "none"
       THEN /\ UNCHANGED session
            /\ validated' = [called |-> TRUE, had_session |-> FALSE,
                             elapsed |-> 0, result |-> "False",
                             cleared |-> FALSE, touched |-> FALSE]
       ELSE LET last == session.last_activity IN
            /\ IF last # NoTime /\ seconds(utcnow - last) > session_timeout
               THEN session' = NoSession
               ELSE session' = [session EXCEPT !.last_activity = utcnow]
            /\ validated' =
                  [called |-> TRUE, had_session |-> TRUE,
                   elapsed |-> utcnow - last,
                   result |-> IF session' = NoSession THEN "False" ELSE "True",
                   cleared |-> session' = NoSession,
                   touched |-> session'.last_activity = utcnow]
    /\ UNCHANGED <<utcnow, jumps>>
    /\ UNCHANGED notCookie

\* time passes between two requests
Advance(e) ==
    /\ jumps < MaxJumps
    /\ utcnow' = utcnow + e
    /\ jumps' = jumps + 1
    /\ UNCHANGED <<session, validated>>
    /\ UNCHANGED notCookie

----------------------------------------------------------------------------
(* The session tables: SessionManager and MessageManager *)

\* a session holds at most MaxMessages messages
MaxMessages == 2

\* the rows of chat_sessions with this session_id
SessionRows(session_id) ==
    {i \in 1..Len(chat_sessions) : chat_sessions[i].session_id = session_id}

\* get_or_create_session(session_id), the query: a row that is found is
\* returned; when there is none, create_session is next
GetOrCreateSession(p, session_id) ==
    /\ sessPc[p] = "idle"
    /\ sessKey' = [sessKey EXCEPT ![p] = session_id]
    /\ IF SessionRows(session_id) # {}
       THEN /\ sessReply' = [sessReply EXCEPT ![p] = "found"]
            /\ UNCHANGED sessPc
       ELSE /\ sessReply' = [sessReply EXCEPT ![p] = "pending"]
            /\ sessPc' = [sessPc EXCEPT ![p] = "creating"]
    /\ UNCHANGED <<chat_sessions, chat_messages>>
    /\ UNCHANGED notSessions

\* create_session(session_id): the row is added and committed; the commit
\* raises IntegrityError when session_id UNIQUE does not hold with it
CreateSession(p) ==
    /\ sessPc[p] = "creating"
    /\ IF SessionRows(sessKey[p]) # {}
       THEN /\ sessReply' = [sessReply EXCEPT ![p] = "IntegrityError"]
            /\ UNCHANGED chat_sessions
       ELSE /\ chat_sessions' =
                  Append(chat_sessions, [id |-> Len(chat_sessions) + 1,
                                         session_id |-> sessKey[p]])
            /\ sessReply' = [sessReply EXCEPT ![p] = "created"]
    /\ sessPc' = [sessPc EXCEPT ![p] = "idle"]
    /\ UNCHANGED <<chat_messages, sessKey>>
    /\ UNCHANGED notSessions

\* MessageManager.add_message(session_id, ...) by a request that has its
\* session
AddMessage(p) ==
    /\ sessPc[p] = "idle"
    /\ sessReply[p] \in {"found", "created"}
    /\ chat_messages[sessKey[p]] < MaxMessages
    /\ chat_messages' = [chat_messages EXCEPT ![sessKey[p]] = @ + 1]
    /\ sessReply' = [sessReply EXCEPT ![p] = "done"]
    /\ UNCHANGED <<chat_sessions, sessPc, sessKey>>
    /\ UNCHANGED notSessions

----------------------------------------------------------------------------
(* The chat client: static/js/chat.js *)

\* the text of the input box: at most MaxInput characters
MaxInput == 2
\* the client stops after MaxRequests requests
MaxRequests == 2

Whitespace == {" ", "\n"}
Chars == Whitespace \cup {"x"}

RECURSIVE TextsOf(_)
TextsOf(n) ==
    IF n = 0 THEN {<<>>}
    ELSE TextsOf(n - 1)
         \cup {Append(v, c) : v \in {w \in TextsOf(n - 1) : Len(w) = n - 1},
                              c \in Chars}

Texts == TextsOf(MaxInput)
\* the texts of one line
OneLine == {v \in Texts : \A i \in 1..Len(v) : v[i] # "\n"}

RECURSIVE trimStart(_)
trimStart(v) ==
    IF v # <<>> /\ Head(v) \in Whitespace THEN trimStart(Tail(v)) ELSE v

RECURSIVE trimEnd(_)
trimEnd(v) ==
    IF v # <<>> /\ v[Len(v)] \in Whitespace
    THEN trimEnd(SubSeq(v, 1, Len(v) - 1))
    ELSE v

\* The text as it is, not trimmed (used to test C29).
untrimmed(v) == v

\* String.prototype.trim(): the text without its leading and trailing
\* whitespace
trim(v) == trimEnd(trimStart(v))

\* `this.isProcessing` read as never set (used to test C37).
NeverBusy(processing) == FALSE

\* `this.isProcessing` in the guard of sendMessage
Busy(processing) == processing

\* The processing state left as it is (used to test C38).
StaysBusy(processing) == processing

\* `finally { this.setProcessing(false); }`
Finally(processing) == FALSE

\* how the fetch of /api/chat can settle: a body with success true, a body
\* with success false, a status that is not OK, or a rejection
Settlements == {"success", "failure", "http_error", "rejected"}
\* response.session_id ("none": the body carries none)
SessionIds == Sessions \cup {"none"}

\* addMessage(role, ...): the entry is stored in the history; the number of
\* the request stands for its content
addMessage(history, role, exchange) ==
    Append(history, [role |-> role, exchange |-> exchange])

\* sendMessage() with v in the input box, up to the request: the trimmed
\* text is the message; an empty message, or a request in progress, ends the
\* call; otherwise the user message is added, the box is emptied, the client
\* is set to processing and the message is posted
SendMessage(v) ==
    /\ sent < MaxRequests
    /\ LET message == trim(v) IN
       IF message = <<>> \/ Busy(isProcessing)
       THEN /\ submitted' = "ignored"
            /\ messageInput' = v
            /\ UNCHANGED <<isProcessing, sent, posted, messageHistory,
                           pending, outcomes>>
       ELSE /\ submitted' = "sent"
            /\ messageHistory' = addMessage(messageHistory, "user", sent + 1)
            /\ messageInput' = <<>>
            /\ isProcessing' = TRUE
            /\ sent' = sent + 1
            /\ posted' = message
            /\ pending' = Append(pending, sent + 1)
            /\ outcomes' = Append(outcomes, "pending")
    /\ UNCHANGED sessionId
    /\ UNCHANGED notClient

\* the outcome shown for request e: one more
Shown(e, kind) ==
    [outcomes EXCEPT ![e] = IF @ = "pending" THEN kind ELSE "many"]

\* sendMessage(), the rest: the fetch of the oldest pending request settled.
\* A success body adds the assistant message and takes over a session_id
\* that differs; anything else shows an error message; the `finally` block
\* ends the processing state
ResponseArrives(how, session_id) ==
    /\ pending # <<>>
    /\ LET e == Head(pending) IN
       IF how = "success"
       THEN /\ messageHistory' = addMessage(messageHistory, "assistant", e)
            /\ outcomes' = Shown(e, "assistant")
            /\ sessionId' = IF session_id # "none" /\ session_id # sessionId
                            THEN session_id ELSE sessionId
       ELSE /\ outcomes' = Shown(e, "error")
            /\ UNCHANGED <<messageHistory, sessionId>>
    /\ pending' = Tail(pending)
    /\ isProcessing' = Finally(isProcessing)
    /\ UNCHANGED <<submitted, sent, posted, messageInput>>
    /\ UNCHANGED notClient

\* clearChat()
ClearChat ==
    /\ messageHistory' = <<>>
    /\ UNCHANGED <<isProcessing, submitted, sent, posted, messageInput,
                   sessionId, pending, outcomes>>
    /\ UNCHANGED notClient

----------------------------------------------------------------------------
(* The worker's process under with_retry and the backend's breaker *)

\* Step 7 and 8 of processTask: the work of the chosen agent is
\* with_retry(breaker.call, process), so every attempt of with_retry is a
\* call through the breaker, made by the caller Worker; what leaves
\* with_retry leaves route_task in the same step, since nothing is awaited
\* in between.
Worker == "c1"
Task == "t1"

\* with_retry is entered for the task in hand: the first attempt enters
\* breaker.call
BeginWork ==
    /\ taskPc[Task] = "processing"
    /\ max_retries >= 1
    /\ WithRetryStep
    /\ CallStep(Worker)
    /\ UNCHANGED <<engVars, sideVars>>

\* the attempt returned: breaker.call returns, with_retry returns,
\* route_task records the result and returns it
WorkReturns ==
    /\ retryPc = "awaiting"
    /\ OperationReturnsStep(Worker)
    /\ AttemptReturnsStep
    /\ RouteTaskReturnsStep(Task, TRUE)
    /\ UNCHANGED sideVars

\* the attempt raised e: breaker.call counts the failure and re-raises,
\* with_retry sleeps or, on the last attempt, re-raises out of route_task
WorkRaises(e, applied) ==
    /\ retryPc = "awaiting"
    /\ OperationRaisesStep(Worker)
    /\ AttemptRaisesStep(e, applied)
    /\ IF LastAttempt(attempt)
       THEN RouteTaskRaisesStep(Task)
       ELSE UNCHANGED engVars
    /\ UNCHANGED sideVars

\* the attempt was refused by the open breaker: breaker.call raised without
\* invoking the operation, and with_retry treats that like any exception
WorkRefused ==
    /\ retryPc = "awaiting"
    /\ callPc[Worker] = "idle"
    /\ outcome[Worker] = "CircuitOpen"
    /\ AttemptRaisesStep("CircuitOpen", FALSE)
    /\ UNCHANGED cbVars
    /\ IF LastAttempt(attempt)
       THEN RouteTaskRaisesStep(Task)
       ELSE UNCHANGED engVars
    /\ UNCHANGED sideVars

\* the backoff sleep is over: the next attempt enters breaker.call
WorkResumes ==
    /\ SleepDoneStep
    /\ CallStep(Worker)
    /\ UNCHANGED <<engVars, sideVars>>

\* the finished with_retry call is gone with its local variables
WorkForgotten ==
    /\ retryPc \in {"returned", "raised"}
    /\ retryPc' = "idle"
    /\ attempt' = 0
    /\ invocations' = 0
    /\ errors' = <<>>
    /\ surfaced' = "none"
    /\ waits' = <<>>
    /\ effects' = 0
    /\ UNCHANGED max_retries
    /\ UNCHANGED notRetry

----------------------------------------------------------------------------
(* Specifications *)

InitBreaker ==
    /\ state = "CLOSED"
    /\ failure_count = 0
    /\ last_failure_time = NoTime
    /\ now = 0
    /\ callPc = [c \in Callers |-> "idle"]
    /\ outcome = [c \in Callers |-> "none"]
    /\ entered = [c \in Callers |-> "none"]
    /\ entryCount = [c \in Callers |-> 0]
    /\ failTimes = <<>>

InitEngine ==
    /\ session_states = {}
    /\ iterationCount = [s \in Sessions |-> 0]
    /\ message_history = [s \in Sessions |-> <<>>]
    /\ last_activity = [s \in Sessions |-> NoTime]
    /\ writers = [s \in Sessions |-> <<>>]
    /\ taskPc = [t \in Tasks |-> "idle"]
    /\ taskSession = [t \in Tasks |-> "none"]
    /\ taskResult = [t \in Tasks |-> "none"]
    /\ taskWorker = [t \in Tasks |-> "none"]
    /\ decision = [t \in Tasks |-> NoDecision]
    /\ analyses = [t \in Tasks |-> 0]
    /\ succeeded = [s \in Sessions |-> 0]
    /\ unsuccessful = [s \in Sessions |-> 0]
    /\ agent_states = {}
    /\ last_saved = [s \in Sessions |-> [a \in Agents |-> NothingSaved]]

InitRetry ==
    /\ max_retries \in 0..MaxRetries
    /\ retryPc = "idle"
    /\ attempt = 0
    /\ invocations = 0
    /\ errors = <<>>
    /\ surfaced = "none"
    /\ waits = <<>>
    /\ effects = 0

\* no request yet
InitRequests ==
    /\ reqPc = [p \in Processes |-> "idle"]
    /\ request = [p \in Processes |-> NoRange]
    /\ found = [p \in Processes |-> <<>>]
    /\ reply = [p \in Processes |-> "none"]

InitCalendar ==
    /\ calendar_events = <<>>
    /\ InitRequests

\* the chat page is loaded: nothing sent
InitClient ==
    /\ isProcessing = FALSE
    /\ submitted = "none"
    /\ sent = 0
    /\ posted = <<>>
    /\ messageInput = <<>>
    /\ messageHistory = <<>>
    /\ sessionId = "s1"
    /\ pending = <<>>
    /\ outcomes = <<>>

\* the tables are empty, no request yet
InitSessions ==
    /\ chat_sessions = <<>>
    /\ chat_messages = [s \in Sessions |-> 0]
    /\ sessPc = [p \in Processes |-> "idle"]
    /\ sessKey = [p \in Processes |-> "none"]
    /\ sessReply = [p \in Processes |-> "none"]

\* RateLimiter.__init__
InitLimiter ==
    /\ request_counts = <<>>
    /\ admitted = [s \in Sessions |-> <<>>]
    /\ allowed = [s \in Sessions |-> "none"]

\* a browser without a session
InitCookie ==
    /\ session = NoSession
    /\ utcnow = 0
    /\ jumps = 0
    /\ validated = [called |-> FALSE, had_session |-> FALSE, elapsed |-> 0,
                    result |-> "none", cleared |-> FALSE, touched |-> FALSE]

Init ==
    /\ InitBreaker /\ InitEngine /\ InitRetry /\ InitCalendar /\ InitClient
    /\ InitSessions /\ InitLimiter /\ InitCookie

\* conflict detection as a function: any table, any time range
InitConflicts ==
    /\ InitBreaker /\ InitEngine /\ InitRetry /\ InitClient /\ InitSessions
    /\ InitLimiter /\ InitCookie
    /\ max_retries = MaxRetries
    /\ calendar_events \in TablesOf(MaxEvents)
    /\ InitRequests

NextBreaker ==
    \/ \E c \in Callers : Call(c)
    \/ \E c \in Callers : OperationReturns(c)
    \/ \E c \in Callers : OperationRaises(c)
    \/ Tick

SpecBreaker == Init /\ [][NextBreaker]_vars

\* a new call is the first one when that is not in progress
FirstFree(t) == t = "t1" \/ taskPc["t1"] # "idle"

NextEngine ==
    \/ \E t \in Tasks, s \in Sessions, rawInput \in Inputs :
          FirstFree(t) /\ ProcessTask(t, s, rawInput)
    \/ \E t \in Tasks, r \in CalendarResponses : AnalysisReturns(t, r, "CLOSED")
    \/ \E t \in Tasks, ok \in BOOLEAN : RouteTaskReturns(t, ok)
    \/ \E t \in Tasks : RouteTaskRaises(t)

\* concurrent calls on two sessions, all of them scheduling requests
SpecEngine == Init /\ [][NextEngine]_vars

NextRouting ==
    \/ \E rawInput \in Inputs : ProcessTask("t1", "s1", rawInput)
    \/ \E r \in Responses, bs \in {"CLOSED", "OPEN"} :
          AnalysisReturns("t1", r, bs)
    \/ \E ok \in BOOLEAN : RouteTaskReturns("t1", ok)
    \/ RouteTaskRaises("t1")

\* one call at a time on one session, the backend answering anything
SpecRouting == Init /\ [][NextRouting]_vars

NextRetry ==
    \/ WithRetry
    \/ AttemptReturns
    \/ \E e \in Errors, applied \in BOOLEAN : AttemptRaises(e, applied)
    \/ SleepDone

NextGuarded ==
    \/ ProcessTask(Task, "s1", "task")
    \/ \E r \in CalendarResponses : AnalysisReturns(Task, r, state)
    \/ BeginWork
    \/ WorkReturns
    \/ \E e \in Errors : WorkRaises(e, FALSE)
    \/ WorkRefused
    \/ WorkResumes
    \/ WorkForgotten
    \/ Tick

\* the tasks of one session, one at a time, the work of each retried
\* through the breaker, which outlives them
SpecGuarded == Init /\ [][NextGuarded]_vars

\* one retry budget, as the engine is configured
InitChat == Init /\ max_retries = 2

NextChat ==
    \/ \E v \in OneLine : SendMessage(v)
    \/ ResponseArrives("success", "none")
    \/ \E rawInput \in Inputs : ProcessTask(Task, "s1", rawInput)
    \/ \E r \in CalendarResponses : AnalysisReturns(Task, r, state)
    \/ BeginWork
    \/ WorkReturns
    \/ WorkRaises("BackendTimeout", FALSE)
    \/ WorkRefused
    \/ WorkResumes
    \/ WorkForgotten

\* the chat client, and the engine serving requests with any input
SpecChat == InitChat /\ [][NextChat]_vars

\* the session tables hold for any retry budget
InitStore == Init /\ max_retries = MaxRetries

NextSessions ==
    \/ \E p \in Processes, s \in Sessions : GetOrCreateSession(p, s)
    \/ \E p \in Processes : CreateSession(p)
    \/ \E p \in Processes : AddMessage(p)

\* the server processes getting or creating sessions and adding messages
SpecSessions == InitStore /\ [][NextSessions]_vars

NextAgentStates ==
    \E s \in Sessions, a \in Agents, d \in Dicts : SaveAgentState(s, a, d)

\* any sequence of save_agent_state calls, one after the other
SpecAgentStates == InitStore /\ [][NextAgentStates]_vars

NextCookie ==
    \/ CreateSecureSession("s1")
    \/ ValidateSession
    \/ \E e \in Elapsed \ {0} : Advance(e)

\* one browser's session, created and validated as time passes
SpecCookie == InitStore /\ [][NextCookie]_vars

\* the fetch of the oldest pending request settles, in any way
Settles ==
    \E how \in Settlements, session_id \in SessionIds :
        ResponseArrives(how, session_id)

NextClient ==
    \/ \E v \in Texts : SendMessage(v)
    \/ Settles
    \/ ClearChat

\* the chat page: submits, settling requests and clearChat in any order;
\* every fetch settles
SpecClient == InitStore /\ [][NextClient]_vars /\ WF_vars(Settles)

NextLimiter ==
    \/ \E s \in Sessions : Len(admitted[s]) < MaxAdmitted /\ CheckRateLimit(s)
    \/ Tick

\* the requests of the sessions through one RateLimiter, as time passes
SpecLimiter == InitStore /\ [][NextLimiter]_vars

NextConflicts ==
    \E r \in Ranges : CheckConflicts("p1", r)

SpecConflicts == InitConflicts /\ [][NextConflicts]_vars

NextCalendar ==
    \/ \E p \in Processes, r \in Meetings : CheckConflicts(p, r)
    \/ \E p \in Processes : CreateEvent(p)

\* event creation requests served by the processes, from an empty table
SpecCalendar == Init /\ [][NextCalendar]_vars

\* the engine is configured with one retry budget
InitService == Init /\ max_retries = 2

\* a call in progress moves on: its backend call returns, raises or is
\* refused, its sleep ends as time passes, the finished with_retry call of
\* the task before it is gone
ServiceSettles ==
    /\ taskPc[Task] # "idle"
    /\ \/ \E r \in CalendarResponses : AnalysisReturns(Task, r, state)
       \/ BeginWork
       \/ WorkReturns
       \/ \E e \in Errors : WorkRaises(e, FALSE)
       \/ WorkRefused
       \/ WorkResumes
       \/ WorkForgotten
       \/ Tick

NextService ==
    \/ ProcessTask(Task, "s1", "task")
    \/ \E r \in CalendarResponses : AnalysisReturns(Task, r, state)
    \/ BeginWork
    \/ WorkReturns
    \/ \E e \in Errors : WorkRaises(e, FALSE)
    \/ WorkRefused
    \/ WorkResumes
    \/ WorkForgotten
    \/ Tick

\* the tasks of one session served one after the other; every backend call
\* settles (it returns, raises or times out) and every sleep ends, while
\* nothing obliges the caller to submit a further task
SpecService == InitService /\ [][NextService]_vars /\ WF_vars(ServiceSettles)

\* the operation settles and the sleep ends: every enabled step is taken
SpecRetry == Init /\ [][NextRetry]_vars /\ WF_vars(NextRetry)

----------------------------------------------------------------------------
(* Circuit breaker properties, checked under SpecBreaker *)

\* C1: a call that arrives while the breaker is OPEN and at most `timeout`
\* seconds have passed since last_failure_time raises the circuit-open error,
\* does not invoke the operation (the caller never awaits it) and leaves
\* state, failure_count and last_failure_time as they were.
C1_OpenFailsFast ==
    [][\A c \in Callers :
          (Call(c) /\ state = "OPEN" /\ now - last_failure_time <= timeout)
          => /\ outcome'[c] = "CircuitOpen"
             /\ callPc'[c] = "idle"
             /\ UNCHANGED <<state, failure_count, last_failure_time>>]_vars

\* a call was refused exactly `timeout` seconds after the last failure
C1_Witness ==
    /\ state = "OPEN"
    /\ now - last_failure_time = timeout
    /\ \E c \in Callers : outcome[c] = "CircuitOpen"

\* C2: only the probe (the call that moved the breaker from OPEN to
\* HALF_OPEN) invokes the operation; no call that arrives while the breaker
\* is HALF_OPEN, the probe still in flight, is awaiting the operation.
C2_OnlyProbeInvokes ==
    \A c \in Callers : callPc[c] = "awaiting" => entered[c] # "HALF_OPEN"

\* C3: the breaker goes from CLOSED to OPEN exactly on the failed call
\* that makes failure_count reach failure_threshold: never on an earlier
\* failure, and always on that one.
C3_OpensAtThreshold ==
    [][(state = "CLOSED" /\ state' = "OPEN")
       <=> /\ state = "CLOSED"
           /\ failure_count' = failure_count + 1
           /\ failure_count' = failure_threshold]_vars

\* the breaker has just opened on the failure number failure_threshold
C3_Witness ==
    /\ state = "OPEN"
    /\ failure_count = failure_threshold
    /\ last_failure_time = now
    /\ \E c \in Callers : outcome[c] = "raised"

\* The code keeps no trailing window; the reset timeout stands in for it.
Window == timeout

\* C4 (as claimed): when the breaker is OPEN on exactly failure_threshold
\* failures, those failures all lie within one window.
C4_OnlyWindowedFailuresCount ==
    (state = "OPEN" /\ Len(failTimes) = failure_threshold)
    => failTimes[Len(failTimes)] - failTimes[1] <= Window

\* C4 (amended): every failure recorded since the last reset counts,
\* whatever its age: the failure that brings their number to
\* failure_threshold or more leaves the breaker OPEN.
C4_EveryFailureCounts ==
    [][(Len(failTimes') = Len(failTimes) + 1
        /\ Len(failTimes') >= failure_threshold)
       => state' = "OPEN"]_vars

\* the breaker opened on failures spread over more than one window
C4_Witness ==
    /\ state = "OPEN"
    /\ Len(failTimes) = failure_threshold
    /\ failTimes[Len(failTimes)] - failTimes[1] > Window

\* C5: the breaker leaves OPEN only to HALF_OPEN, only in a step in which
\* a caller enters call() and starts awaiting the operation, and only when
\* more than `timeout` seconds have passed since last_failure_time.
C5_LeavesOpenOnlyByProbe ==
    [][(state = "OPEN" /\ state' # "OPEN")
       => /\ state' = "HALF_OPEN"
          /\ now - last_failure_time > timeout
          /\ \E c \in Callers :
                callPc[c] = "idle" /\ callPc'[c] = "awaiting"]_vars

\* a probe is in flight
C5_Witness ==
    /\ state = "HALF_OPEN"
    /\ \E c \in Callers : callPc[c] = "awaiting" /\ entered[c] = "OPEN"

\* C6: in HALF_OPEN a call that returns closes the breaker and resets
\* failure_count to 0, a call that raises opens it again with
\* last_failure_time set to the time of the failure, and nothing else
\* moves the breaker out of HALF_OPEN.
C6_HalfOpenDecided ==
    [][state = "HALF_OPEN"
       => /\ \A c \in Callers :
                /\ OperationReturns(c)
                   => (state' = "CLOSED" /\ failure_count' = 0)
                /\ OperationRaises(c)
                   => (state' = "OPEN" /\ last_failure_time' = now)
          /\ state' # "HALF_OPEN"
             => \E c \in Callers : OperationReturns(c) \/ OperationRaises(c)]_vars

\* the breaker was closed again by a successful probe
C6_Witness ==
    /\ state = "CLOSED"
    /\ failure_count = 0
    /\ last_failure_time # NoTime

\* C7: failure_count is the number of failures recorded since the last
\* reset (no update is lost under interleaved calls), and the state agrees
\* with that number: CLOSED exactly while it is below failure_threshold.
C7_NoLostUpdate ==
    /\ failure_count = Len(failTimes)
    /\ state = "CLOSED" <=> Len(failTimes) < failure_threshold

\* a call is in flight that entered before a failure of another call
C7_Witness ==
    \E c \in Callers : callPc[c] = "awaiting" /\ entryCount[c] < failure_count

\* C35: while the breaker is CLOSED failure_count is below
\* failure_threshold; while it is OPEN or HALF_OPEN failure_count is at
\* least failure_threshold and last_failure_time is set.
C35_StateAgreesWithCount ==
    /\ failure_threshold >= 1
    /\ state = "CLOSED" => failure_count < failure_threshold
    /\ state \in {"OPEN", "HALF_OPEN"}
          => /\ failure_count >= failure_threshold
             /\ last_failure_time # NoTime
             /\ last_failure_time <= now

\* a probe is in flight after more failures than the threshold: a call
\* that had entered before the breaker opened failed after it
C35_Witness ==
    /\ state = "HALF_OPEN"
    /\ failure_count > failure_threshold
    /\ last_failure_time # NoTime

----------------------------------------------------------------------------
(* Workflow engine properties, checked under SpecEngine *)

\* C8: no processTask call raises to its caller: every call ends with a
\* structured result.
C8_NeverRaises ==
    \A t \in Tasks : taskResult[t] # "raised"

\* C9 (as claimed): iterationCount never exceeds the configured maximum.
C9_CountNeverExceedsMax ==
    \A s \in Sessions : iterationCount[s] <= MAX_AGENT_ITERATIONS

\* the call t has just counted itself in session s: it wrote the user
\* entry that is now the last of the history
Counted(t, s) ==
    /\ iterationCount'[s] = iterationCount[s] + 1
    /\ writers'[s] = Append(writers[s], t)

\* C9 (amended): a task is dispatched only when its increment left
\* iterationCount at most the maximum, and iterationCount exceeds the
\* maximum only through rejected calls: every call whose increment takes
\* it above the maximum is refused with IterationLimitExceeded, and is
\* counted all the same.
C9_CountExceedsOnlyByRejection ==
    [][\A t \in Tasks, s \in Sessions :
          Counted(t, s)
          => IF iterationCount'[s] <= MAX_AGENT_ITERATIONS
             THEN taskPc'[t] = "analysing" /\ taskSession'[t] = s
             ELSE /\ taskPc'[t] = "idle"
                  /\ taskResult'[t] = "IterationLimitExceeded"]_vars

\* a session was sent two tasks more than the maximum
C9_Witness ==
    \E s \in Sessions, t \in Tasks :
        /\ iterationCount[s] = MAX_AGENT_ITERATIONS + 2
        /\ writers[s][Len(writers[s])] = t
        /\ taskResult[t] = "IterationLimitExceeded"

InProgress(s) == {t \in Tasks : taskPc[t] # "idle" /\ taskSession[t] = s}

\* C10 (as claimed): once no call is in progress, iterationCount equals the
\* number of calls that returned success, whatever failed calls came between.
C10_CountEqualsSuccesses ==
    \A s \in Sessions : InProgress(s) = {} => iterationCount[s] = succeeded[s]

\* C10 (amended): iterationCount equals the number of calls with a
\* non-empty input: those that returned success, those that did not
\* (failed, raised, or refused by the limit) and those in progress; and
\* the calls that return success are among the first MAX_AGENT_ITERATIONS
\* counted of their session.
C10_CountEqualsCountedCalls ==
    \A s \in Sessions :
        /\ iterationCount[s] =
              succeeded[s] + unsuccessful[s] + Cardinality(InProgress(s))
        /\ succeeded[s] + Cardinality(InProgress(s)) <= MAX_AGENT_ITERATIONS

\* successes and failures interleaved in one session, up to the maximum
C10_Witness ==
    \E s \in Sessions, t \in Tasks :
        /\ succeeded[s] >= 1
        /\ unsuccessful[s] >= 1
        /\ taskResult[t] = "success"
        /\ writers[s][Len(writers[s])] = t
        /\ iterationCount[s] = MAX_AGENT_ITERATIONS

\* C11: the call whose increment takes iterationCount above the maximum
\* is refused with IterationLimitExceeded in that very step, and nothing is
\* invoked for it: no delegation analysis is started, no agent is given the
\* task, and it stays so as long as that result stands.
C11_RejectedBeforeAnyInvocation ==
    /\ [][\A t \in Tasks, s \in Sessions :
             (Counted(t, s) /\ iterationCount'[s] > MAX_AGENT_ITERATIONS)
             => /\ taskResult'[t] = "IterationLimitExceeded"
                /\ taskPc'[t] = "idle"
                /\ analyses'[t] = 0
                /\ taskWorker'[t] = "none"]_vars
    /\ [](\A t \in Tasks :
             taskResult[t] = "IterationLimitExceeded"
             => /\ taskPc[t] = "idle"
                /\ analyses[t] = 0
                /\ taskWorker[t] = "none"
                /\ decision[t] = NoDecision)

\* the first task above the maximum was refused
C11_Witness ==
    \E s \in Sessions, t \in Tasks :
        /\ iterationCount[s] = MAX_AGENT_ITERATIONS + 1
        /\ writers[s][Len(writers[s])] = t
        /\ taskResult[t] = "IterationLimitExceeded"
        /\ succeeded[s] = MAX_AGENT_ITERATIONS

\* C17: no two processTask calls of the same session are in progress
\* together.
C17_OneCallPerSession ==
    \A t \in Tasks, u \in Tasks :
        (t # u /\ taskPc[t] # "idle" /\ taskPc[u] # "idle")
        => taskSession[t] # taskSession[u]

\* C18: the entries of different calls are not interleaved in a session's
\* history: every assistant entry comes right after the user entry of the
\* same call.
C18_CallsNotInterleaved ==
    \A s \in Sessions :
        \A i \in 1..Len(message_history[s]) :
            message_history[s][i].role = "assistant"
            => /\ i > 1
               /\ message_history[s][i - 1].role = "user"
               /\ writers[s][i - 1] = writers[s][i]

----------------------------------------------------------------------------
(* Delegation properties, checked under SpecRouting *)

\* C12: a task whose delegation decision has a confidence below the
\* threshold is worked on by the coordinator, never by the recommended
\* agent.
C12_LowConfidenceHandledDirectly ==
    \A t \in Tasks :
        (taskPc[t] = "processing" /\ decision[t].confidence < delegation_threshold)
        => taskWorker[t] = Coordinator

\* C13: an agent other than the coordinator is given the task only when
\* the decision's confidence is at least the threshold, the agent is
\* registered and its breaker is not OPEN.
C13_DelegatesOnlyWhenSound ==
    \A t \in Tasks :
        (taskPc[t] = "processing" /\ taskWorker[t] # Coordinator)
        => /\ decision[t].confidence >= delegation_threshold
           /\ taskWorker[t] \in Agents
           /\ decision[t].target_state # "OPEN"

\* C14: a response that is not well-formed is acted on as
\* needs_delegation = false, the coordinator works on the task, and no
\* result is a MalformedDelegationResponse error.
C14_MalformedHandledDirectly ==
    \A t \in Tasks :
        /\ decision[t].malformed
           => /\ taskPc[t] = "processing"
              /\ taskWorker[t] = Coordinator
              /\ ~decision[t].needs_delegation
        /\ taskResult[t] # "MalformedDelegationResponse"

\* the coordinator works on a task whose delegation response was malformed
C14_Witness ==
    \E t \in Tasks :
        /\ taskPc[t] = "processing"
        /\ decision[t].malformed
        /\ taskWorker[t] = Coordinator
        /\ taskResult[t] = "pending"

\* C15: at most one delegation decision is made for a task: the agent the
\* coordinator hands the task to does not delegate it further.
C15_SingleDelegation ==
    \A t \in Tasks : analyses[t] <= 1

----------------------------------------------------------------------------
(* with_retry properties, checked under SpecRetry *)

\* C19: with max_retries >= 1 the operation is invoked at most max_retries
\* times, a successful invocation is the last one (every invocation before
\* it failed), and every call of with_retry ends, returned or raised.
C19_BoundedAttempts ==
    /\ [](max_retries >= 1 => invocations <= max_retries)
    /\ []((max_retries >= 1 /\ retryPc = "returned")
          => invocations = Len(errors) + 1)
    /\ [][retryPc = "returned" => invocations' = invocations]_vars
    /\ [](retryPc = "awaiting" => <>(retryPc \in {"returned", "raised"}))

\* the last of max_retries >= 2 attempts succeeded
C19_Witness ==
    /\ max_retries >= 2
    /\ retryPc = "returned"
    /\ invocations = max_retries

\* C20: with_retry raises only after max_retries failed attempts, and the
\* error it raises is the error of the last attempt.
C20_LastErrorSurfaced ==
    /\ retryPc = "raised"
       => /\ Len(errors) = max_retries
          /\ surfaced = errors[max_retries]
    /\ retryPc # "raised" => surfaced = "none"

\* all attempts failed, the last with another error than the first
C20_Witness ==
    /\ retryPc = "raised"
    /\ max_retries >= 2
    /\ errors[1] # errors[max_retries]
    /\ surfaced = errors[max_retries]

\* what a session owns: its history, its count, its last activity and the
\* rows of the agent_states table that carry its session_id
SessionView(s) ==
    <<message_history[s], iterationCount[s], last_activity[s],
      {r \in agent_states : r.session_id = s}>>

\* the step is a step of a call on session s: the call counts itself in s,
\* or it is in progress on s and moves on
ActsOn(s) ==
    \E t \in Tasks :
        \/ Counted(t, s)
        \/ /\ taskSession[t] = s
           /\ taskPc[t] # "idle"
           /\ taskPc'[t] # taskPc[t]

\* C28: what a session owns changes only in a step of a call on that
\* session, and such a step is a step on no other session, so a call on
\* session A leaves the history, the count and every AgentState of session
\* B as they were; every AgentState row belongs to one existing session and
\* is the only row of its session and agent.
C28_SessionsIsolated ==
    /\ [][\A b \in Sessions :
              SessionView(b)' # SessionView(b)
                 => /\ ActsOn(b)
                    /\ \A a \in Sessions \ {b} :
                          ~ActsOn(a) /\ SessionView(a)' = SessionView(a)]_vars
    /\ [](\A r \in agent_states :
              /\ r.session_id \in session_states
              /\ \A q \in agent_states :
                    (q.session_id = r.session_id /\ q.agent_type = r.agent_type)
                       => q = r)

\* both sessions have an AgentState of the calendar agent, with different
\* state data, and a call is in progress on one of them
C28_Witness ==
    /\ \E r, q \in agent_states :
          /\ r.session_id = "s1" /\ q.session_id = "s2"
          /\ r.agent_type = q.agent_type
          /\ r.state_data # q.state_data
    /\ InProgress("s1") # {}

\* C22: the waits of one call are 1, 2, 4, ...: the k-th wait (k from 0)
\* is 2^k seconds and follows failed attempt k; there are as many waits as
\* failed attempts, less the final one when the call raised, so no wait
\* follows the final failed attempt; and nothing is waited for once the
\* call has returned or raised.
C22_ExponentialBackoff ==
    /\ [](\A k \in 1..Len(waits) : waits[k] = 2 ^ (k - 1))
    /\ [](Len(waits) = IF retryPc = "raised" THEN Len(errors) - 1 ELSE Len(errors))
    /\ [][(retryPc = "returned" \/ retryPc = "raised") => waits' = waits]_vars

\* three waits were slept and the fourth attempt is under way or over
C22_Witness ==
    /\ waits = <<1, 2, 4>>
    /\ invocations = 4
    /\ retryPc \in {"awaiting", "returned", "raised"}

\* C21: no attempt after the first of a with_retry call is made into an
\* open breaker: none of them is refused with the circuit-open error.
C21_NoRetryWhileOpen ==
    \A i \in 2..Len(errors) : errors[i] # "CircuitOpen"

\* C23: when every attempt of a call timed out, the engine returns a
\* failure result with the error BackendTimeout after max_retries
\* attempts, each of them counted by the breaker.
C23_TimeoutsEndInFailureResult ==
    (/\ retryPc = "raised"
     /\ \A i \in 1..Len(errors) : errors[i] = "BackendTimeout")
    => /\ Len(errors) = max_retries
       /\ surfaced = "BackendTimeout"
       /\ failure_count >= max_retries
       /\ taskResult[Task] = "failure"

\* C16 (as claimed): when the retried call returns, the side effects of
\* the operation have been applied exactly once, failed attempts included.
C16_EffectsExactlyOnce ==
    (retryPc = "returned" /\ max_retries >= 1) => effects = 1

\* C16 (amended): when the retried call returns, the side effects of the
\* operation have been applied once by the attempt that returned and at
\* most once by each failed attempt before it: at least once, at most once
\* per invocation, and exactly once when the first attempt returned.
C16_EffectsOncePerAttempt ==
    (retryPc = "returned" /\ max_retries >= 1)
    => /\ effects >= 1
       /\ effects <= invocations
       /\ invocations = 1 => effects = 1

\* a retried call returned after a failed attempt had applied the effects
C16_Witness ==
    /\ retryPc = "returned"
    /\ Len(errors) >= 1
    /\ effects = 2

----------------------------------------------------------------------------
(* Conflict detection properties, checked under SpecConflicts *)

\* the row e is among the rows the conflict check of p1 returned
Found(e) == \E j \in 1..Len(found["p1"]) : found["p1"][j] = e
Asked == reply["p1"] # "none"

\* C24: conflict detection is symmetric: a row of the table conflicts with
\* the requested range exactly when the requested range, as the only row
\* of a table, conflicts with the range of that row; and a row that only
\* touches the requested range (the end of one is the start of the other)
\* does not conflict.
C24_SymmetricAndTouchingFree ==
    Asked =>
    \A i \in 1..Len(calendar_events) :
        LET e == calendar_events[i]
            c == request["p1"]
        IN /\ Found(e) <=> find_conflicts(<<c>>, e.start_time, e.end_time) # <<>>
           /\ (e.end_time = c.start_time \/ c.end_time = e.start_time) => ~Found(e)

\* one row conflicts with the requested range, another only touches it
C24_Witness ==
    /\ reply["p1"] = "conflict"
    /\ \E i \in 1..Len(calendar_events) :
          /\ calendar_events[i].end_time = request["p1"].start_time
          /\ calendar_events[i].start_time < calendar_events[i].end_time
          /\ ~Found(calendar_events[i])
    /\ request["p1"].start_time < request["p1"].end_time

\* C25: a range of no duration conflicts with nothing, whether it is the
\* requested range or a row of the table.
C25_ZeroDurationNeverConflicts ==
    Asked =>
    \A i \in 1..Len(calendar_events) :
        LET e == calendar_events[i]
            c == request["p1"]
        IN (e.start_time = e.end_time \/ c.start_time = c.end_time) => ~Found(e)

\* C26: the conflict check returns exactly the rows e with
\* e.start_time < end_time and e.end_time > start_time of the requested
\* range, in the order of the table; conflicts_with gives the same verdict
\* on every row; and the check changes neither the table nor the range
\* it was asked about.
C26_ExactlyTheIntersecting ==
    /\ [](Asked =>
            LET c == request["p1"] IN
            /\ \A i \in 1..Len(calendar_events) :
                   LET e == calendar_events[i] IN
                   /\ Found(e) <=> (e.start_time < c.end_time /\ e.end_time > c.start_time)
                   /\ Found(e) <=> conflicts_with(e, c.start_time, c.end_time)
            /\ \A j \in 1..Len(found["p1"]) :
                   \E i \in 1..Len(calendar_events) : calendar_events[i] = found["p1"][j]
            /\ Len(found["p1"]) =
                  Cardinality({i \in 1..Len(calendar_events) :
                                  /\ calendar_events[i].start_time < c.end_time
                                  /\ calendar_events[i].end_time > c.start_time}))
    /\ [][/\ calendar_events' = calendar_events
          /\ \A r \in Ranges : CheckConflicts("p1", r) => request'["p1"] = r]_vars

\* of two rows the check returned the one that intersects the request
C26_Witness ==
    /\ Len(calendar_events) = 2
    /\ Len(found["p1"]) = 1
    /\ found["p1"][1] = calendar_events[2]
    /\ reply["p1"] = "conflict"

----------------------------------------------------------------------------
(* Input validation properties, checked under SpecChat *)

\* a text of whitespace only, the empty text included
Blank(v) == \A i \in 1..Len(v) : v[i] \in Whitespace

\* C29: a processTask call with the empty input ends with InvalidInputError
\* in the step that receives it: no analysis is started, no worker is set,
\* with_retry and the breaker are not entered, the session is not touched,
\* and the call is over; and sendMessage on an empty or whitespace-only text
\* sends no request, so every message posted is non-empty and trimmed.
C29_EmptyInputRejectedUnsent ==
    /\ [][ProcessTask(Task, "s1", "")
             => /\ taskResult'[Task] = "InvalidInputError"
                /\ taskPc'[Task] = "idle"
                /\ analyses' = analyses
                /\ taskWorker' = taskWorker
                /\ <<retryPc, attempt, invocations, effects>>'
                      = <<retryPc, attempt, invocations, effects>>
                /\ callPc' = callPc
                /\ SessionView("s1")' = SessionView("s1")]_vars
    /\ [](taskResult[Task] = "InvalidInputError"
             => /\ taskPc[Task] = "idle"
                /\ analyses[Task] = 0
                /\ taskWorker[Task] = "none")
    /\ [][\A v \in OneLine :
              (Blank(v) /\ SendMessage(v))
                 => /\ submitted' = "ignored"
                    /\ sent' = sent
                    /\ posted' = posted]_vars
    /\ [](sent > 0 => /\ ~Blank(posted)
                      /\ Head(posted) \notin Whitespace
                      /\ posted[Len(posted)] \notin Whitespace)

\* a whitespace-only text was submitted with no request in progress and
\* nothing has been sent, and the engine, called with the empty input
\* directly, has rejected it without any attempt
C29_Witness ==
    /\ submitted = "ignored"
    /\ sent = 0
    /\ taskResult[Task] = "InvalidInputError"
    /\ invocations = 0
    /\ message_history["s1"] = <<>>

----------------------------------------------------------------------------
(* Session creation properties, checked under SpecSessions *)

\* C30: getting or creating a session never ends in an error; no
\* session_id has two rows; a request that got or created its session has
\* exactly one row for it; and a session is created only when it has no
\* history, so the history of an existing session is never replaced.
C30_CreateOnMissOnce ==
    /\ \A p \in Processes : sessReply[p] # "IntegrityError"
    /\ \A s \in Sessions : Cardinality(SessionRows(s)) <= 1
    /\ \A p \in Processes :
          sessReply[p] \in {"found", "created", "done"}
             => Cardinality(SessionRows(sessKey[p])) = 1
    /\ \A p \in Processes :
          sessReply[p] = "created" => chat_messages[sessKey[p]] = 0

----------------------------------------------------------------------------
(* The rejected task, checked under SpecGuarded *)

\* C36: the call that takes iterationCount above the maximum is rejected
\* with IterationLimitExceeded in the step that counts it: its user message
\* is appended and the count incremented, nothing else is appended, the
\* call is over without a dispatch, and the agent states, the breaker and
\* the retries are as they were; no other counted call is rejected.
C36_RejectedTaskIsCounted ==
    [][\A t \in Tasks, s \in Sessions :
          Counted(t, s)
             => /\ (taskResult'[t] = "IterationLimitExceeded")
                     <=> iterationCount'[s] > MAX_AGENT_ITERATIONS
                /\ (taskResult'[t] = "IterationLimitExceeded")
                     => /\ message_history'[s] =
                              Append(message_history[s],
                                     [role |-> "user", content |-> "task",
                                      agent_type |-> "none"])
                        /\ taskPc'[t] = "idle"
                        /\ taskWorker'[t] = taskWorker[t]
                        /\ agent_states' = agent_states
                        /\ <<state, failure_count, last_failure_time>>'
                              = <<state, failure_count, last_failure_time>>
                        /\ <<retryPc, invocations, effects>>'
                              = <<retryPc, invocations, effects>>]_vars

\* a task was rejected while the breaker was OPEN and an AgentState was
\* stored: the history ends with its user message
C36_Witness ==
    /\ taskResult[Task] = "IterationLimitExceeded"
    /\ iterationCount["s1"] = MAX_AGENT_ITERATIONS + 1
    /\ message_history["s1"][Len(message_history["s1"])].role = "user"
    /\ agent_states # {}
    /\ state = "OPEN"

----------------------------------------------------------------------------
(* Progress of the engine, checked under SpecService *)

\* C32: every call that is in progress eventually ends, and ends by
\* returning a result, success or failure, before the next call of the
\* session is counted; and after a call that failed the session takes the
\* next call: while the session has iterations left, the call that follows
\* a failed one is counted and dispatched, never refused.
C32_EveryCallReturns ==
    /\ \A n \in 1..MaxTasks :
          (iterationCount["s1"] = n /\ taskPc[Task] # "idle")
             ~> (/\ iterationCount["s1"] = n
                 /\ taskPc[Task] = "idle"
                 /\ taskResult[Task] \in {"success", "failure"})
    /\ [][(/\ taskResult[Task] \in {"failure", "raised"}
            /\ iterationCount["s1"] < MAX_AGENT_ITERATIONS
            /\ ProcessTask(Task, "s1", "task"))
              => (/\ iterationCount'["s1"] = iterationCount["s1"] + 1
                  /\ taskPc'[Task] # "idle")]_vars

----------------------------------------------------------------------------
(* Agent state persistence, checked under SpecAgentStates *)

\* C33: no session and agent have two rows, and load_agent_state returns
\* the state_data given to the most recent save_agent_state call for the
\* session and agent, and the empty dict when there was none.
C33_LoadReturnsLastSaved ==
    /\ \A r, q \in agent_states :
          (r.session_id = q.session_id /\ r.agent_type = q.agent_type) => r = q
    /\ \A s \in Sessions, a \in Agents :
          load_agent_state(agent_states, s, a) =
             IF last_saved[s][a].saved THEN last_saved[s][a].state_data
             ELSE EmptyDict

----------------------------------------------------------------------------
(* Session timeout, checked under SpecCookie *)

\* C34: a validate_session call on a session that has been active returns
\* False and clears the session when more than session_timeout seconds
\* have passed since last_activity, however many; otherwise it returns True
\* and sets last_activity to the current time.
C34_TimeoutForEveryDuration ==
    (validated.called /\ validated.had_session)
       => IF validated.elapsed > session_timeout
          THEN validated.result = "False" /\ validated.cleared
          ELSE validated.result = "True" /\ validated.touched

----------------------------------------------------------------------------
(* Rate limiting properties, checked under SpecLimiter *)

\* the number of times in the window [t, t + w)
InWindow(times, t, w) ==
    Cardinality({i \in 1..Len(times) : t <= times[i] /\ times[i] < t + w})

\* the number of times less than w before t
InLast(times, t, w) ==
    Cardinality({i \in 1..Len(times) : t - times[i] < w})

----------------------------------------------------------------------------
(* Chat client properties, checked under SpecClient *)

\* C37: at most one request is in flight, and exactly while isProcessing
\* is true; a sendMessage call made while isProcessing is true sends
\* nothing and leaves the history and the input box as they are.
C37_OneRequestInFlight ==
    /\ [](Len(pending) <= 1)
    /\ [](isProcessing <=> pending # <<>>)
    /\ [][\A v \in Texts :
              (isProcessing /\ SendMessage(v))
                 => /\ submitted' = "ignored"
                    /\ pending' = pending
                    /\ sent' = sent
                    /\ messageHistory' = messageHistory
                    /\ messageInput' = v]_vars

\* a text that is not blank was submitted while a request was in flight,
\* and was ignored
C37_Witness ==
    /\ submitted = "ignored"
    /\ isProcessing
    /\ Len(pending) = 1
    /\ ~Blank(messageInput)

\* the outcome of request e ("unsent": there is no request e yet)
Outcome(e) == IF e <= Len(outcomes) THEN outcomes[e] ELSE "unsent"

\* C38: every request sent is eventually settled with isProcessing false
\* again, however its fetch settles; no request is shown more than one
\* outcome, and a request has no outcome exactly while it is in flight.
C38_EverySendSettles ==
    /\ \A e \in 1..MaxRequests :
          (Outcome(e) = "pending")
             ~> (Outcome(e) \in {"assistant", "error"} /\ ~isProcessing)
    /\ [](\A e \in 1..Len(outcomes) :
              /\ outcomes[e] # "many"
              /\ outcomes[e] = "pending"
                    <=> \E i \in 1..Len(pending) : pending[i] = e)

\* one request ended with an error message, the next with an assistant
\* message, and the client is ready again
C38_Witness ==
    /\ Len(outcomes) = 2
    /\ outcomes[1] = "error"
    /\ outcomes[2] = "assistant"
    /\ ~isProcessing

\* C39: in messageHistory every assistant entry comes right after the user
\* entry of the same request; the history holds user and assistant entries
\* only, an assistant entry only for a request whose outcome was an
\* assistant message; and sessionId changes only when a success response
\* arrives that carries another session_id, to that session_id.
C39_HistoryPairsExchanges ==
    /\ [](\A i \in 1..Len(messageHistory) :
              /\ messageHistory[i].role \in {"user", "assistant"}
              /\ messageHistory[i].role = "assistant"
                    => /\ Outcome(messageHistory[i].exchange) = "assistant"
                       /\ i > 1
                       /\ messageHistory[i - 1] =
                             [role |-> "user",
                              exchange |-> messageHistory[i].exchange])
    /\ [][sessionId' # sessionId
             => \E session_id \in Sessions :
                   /\ session_id # sessionId
                   /\ ResponseArrives("success", session_id)
                   /\ sessionId' = session_id]_vars

----------------------------------------------------------------------------
(* Event creation properties, checked under SpecCalendar *)

\* two time ranges share a slot
Overlapping(a, b) ==
    \E t \in 0..MaxSlot :
        /\ a.start_time <= t /\ t < a.end_time
        /\ b.start_time <= t /\ t < b.end_time

\* C27: no two rows of the table have overlapping time ranges.
C27_NoOverlappingEvents ==
    \A i \in 1..Len(calendar_events), j \in 1..Len(calendar_events) :
        i # j => ~Overlapping(calendar_events[i], calendar_events[j])

====
